---- MODULE Spec2Model ----
(***************************************************************************)
(* Def-use analysis of librustc_mir (src/librustc_mir/def_use.rs).         *)
(*                                                                         *)
(* The MIR is a sequence of basic blocks, each a sequence of statements;   *)
(* a statement is the sequence of the lvalue operands the MIR visitor      *)
(* hands to visit_lvalue, each with its LvalueContext.  An lvalue is a     *)
(* record: Arg/Var/Temp (with an index), ReturnPointer, Static, or a       *)
(* Projection (Deref, Field, Index) of a base lvalue.                      *)
(*                                                                         *)
(* The MIR itself and the visitor framework (rustc::mir::repr and          *)
(* rustc::mir::visit) are not part of def_use.rs; the definitions that     *)
(* stand for them follow the interfaces def_use.rs consumes.               *)
(***************************************************************************)
EXTENDS Integers, Sequences, FiniteSets, TLC

VARIABLES mir,          \* the program the analysis is run on
          mir_summary,  \* DefUseAnalysis.mir_summary
          info,         \* DefUseAnalysis.info : IndexVec<Local, Info>
          request,      \* the arguments replace_all_defs_and_uses_with is called with
          trace,        \* the analyze / replace_all calls that returned, oldest first
          pre,          \* program and table as they were when the latest call began
          ret           \* the latest call: its name, arguments and outcome

vars == <<mir, mir_summary, info, request, trace, pre, ret>>

-----------------------------------------------------------------------------
(* Bounds of the model. *)

\* Nesting depth of the projections in the programs Init draws.
MaxNest == 1
\* Number of analyze calls in one behaviour.
MaxRuns == 2
\* Number of replace_all_defs_and_uses_with calls that return in one behaviour.
MaxRewrites == 1
\* Largest number of declarations of one kind (arguments, variables,
\* temporaries) in the summaries of SpecIndex.
MaxDecls == 2

-----------------------------------------------------------------------------
(* Option<T> *)

None == [some |-> FALSE]
Some(v) == [some |-> TRUE, value |-> v]

-----------------------------------------------------------------------------
(* Lvalue (rustc::mir::repr) *)

Arg(i) == [kind |-> "Arg", index |-> i]
Var(i) == [kind |-> "Var", index |-> i]
Temp(i) == [kind |-> "Temp", index |-> i]
ReturnPointer == [kind |-> "ReturnPointer"]
Static(d) == [kind |-> "Static", def_id |-> d]
Projection(e, b) == [kind |-> "Projection", elem |-> e, base |-> b]

ProjectionElems == {"Deref", "Field", "Index"}

\* Number of projections wrapped around the innermost lvalue.
RECURSIVE Nesting(_)
Nesting(lvalue) ==
    IF lvalue.kind = "Projection" THEN 1 + Nesting(lvalue.base) ELSE 0

-----------------------------------------------------------------------------
(* LvalueContext (rustc::mir::visit) *)

is_drop(context) == context = "Drop"

is_mutating_use(context) ==
    context \in {"Store", "Call", "Drop", "ProjectionMut"}

is_nonmutating_use(context) ==
    context \in {"Inspect", "Consume", "ProjectionNot"}

\* The context super_projection visits the base of a projection with.
ProjectionContext(context) ==
    IF is_mutating_use(context) THEN "ProjectionMut" ELSE "ProjectionNot"

-----------------------------------------------------------------------------
(* MirSummary *)

MirSummaryNew(m) ==
    [arg_count |-> m.arg_count,
     var_count |-> m.var_count,
     temp_count |-> m.temp_count]

\* A projection resolved to the local at its base.
RECURSIVE local_index_through_projections(_, _)
local_index_through_projections(s, lvalue) ==
    CASE lvalue.kind = "Arg" -> Some(lvalue.index)
      [] lvalue.kind = "Var" -> Some(lvalue.index + s.arg_count)
      [] lvalue.kind = "Temp" -> Some(lvalue.index + s.arg_count + s.var_count)
      [] lvalue.kind = "ReturnPointer" ->
            Some(s.arg_count + s.var_count + s.temp_count)
      [] lvalue.kind = "Projection" ->
            local_index_through_projections(s, lvalue.base)
      [] OTHER -> None

\* The offset of the variables left out for a temporary.
local_index_temp_unshifted(s, lvalue) ==
    CASE lvalue.kind = "Arg" -> Some(lvalue.index)
      [] lvalue.kind = "Var" -> Some(lvalue.index + s.arg_count)
      [] lvalue.kind = "Temp" -> Some(lvalue.index + s.arg_count)
      [] lvalue.kind = "ReturnPointer" ->
            Some(s.arg_count + s.var_count + s.temp_count)
      [] OTHER -> None

local_index(s, lvalue) ==
    CASE lvalue.kind = "Arg" -> Some(lvalue.index)
      [] lvalue.kind = "Var" -> Some(lvalue.index + s.arg_count)
      [] lvalue.kind = "Temp" -> Some(lvalue.index + s.arg_count + s.var_count)
      [] lvalue.kind = "ReturnPointer" ->
            Some(s.arg_count + s.var_count + s.temp_count)
      [] OTHER -> None

-----------------------------------------------------------------------------
(* Mir (rustc::mir::repr) *)

\* One operand of a statement: the lvalue and the context it is visited in.
Operand(context, lvalue) == [context |-> context, lvalue |-> lvalue]

Location(b, i) == [block |-> b, statement_index |-> i]

count_locals(m) == m.arg_count + m.var_count + m.temp_count + 1

\* The statement at a location (blocks and statements are numbered from 0).
StatementAt(m, location) ==
    m.basic_blocks[location.block + 1][location.statement_index + 1]

\* Every location of the program, in the order visit_mir walks them.
RECURSIVE LocationsFrom(_, _, _)
LocationsFrom(m, b, i) ==
    IF b >= Len(m.basic_blocks) THEN << >>
    ELSE IF i >= Len(m.basic_blocks[b + 1]) THEN LocationsFrom(m, b + 1, 0)
    ELSE << Location(b, i) >> \o LocationsFrom(m, b, i + 1)

-----------------------------------------------------------------------------
(* Info and Use *)

Use(context, location) == [context |-> context, location |-> location]

InfoNew == [defs_and_uses |-> << >>]

def_count(i) ==
    LET Keep(u) == is_mutating_use(u.context)
    IN  Len(SelectSeq(i.defs_and_uses, Keep))

\* The drops counted with the other definitions.
def_count_with_drops(i) ==
    LET Keep(u) == is_mutating_use(u.context)
    IN  Len(SelectSeq(i.defs_and_uses, Keep))

def_count_not_including_drop(i) ==
    LET Keep(u) == is_mutating_use(u.context) /\ ~is_drop(u.context)
    IN  Len(SelectSeq(i.defs_and_uses, Keep))

use_count(i) ==
    LET Keep(u) == is_nonmutating_use(u.context)
    IN  Len(SelectSeq(i.defs_and_uses, Keep))

-----------------------------------------------------------------------------
(* DefUseFinder: the read-only visitor *)

\* A finder that records a use only when the Info does not hold it yet.
RECURSIVE FinderVisitLvalueDedup(_, _, _, _, _)
FinderVisitLvalueDedup(table, s, lvalue, context, location) ==
    LET local == local_index(s, lvalue)
        held == \E i \in DOMAIN table[local.value].defs_and_uses :
                    table[local.value].defs_and_uses[i] = Use(context, location)
        pushed == IF local.some /\ ~held
                  THEN [table EXCEPT ![local.value].defs_and_uses =
                                          Append(@, Use(context, location))]
                  ELSE table
    IN  IF lvalue.kind = "Projection"
        THEN FinderVisitLvalueDedup(pushed, s, lvalue.base,
                                    ProjectionContext(context), location)
        ELSE pushed

\* visit_lvalue, with super_lvalue descending into the base of a projection.
RECURSIVE FinderVisitLvalue(_, _, _, _, _)
FinderVisitLvalue(table, s, lvalue, context, location) ==
    LET local == local_index(s, lvalue)
        pushed == IF local.some
                  THEN [table EXCEPT ![local.value].defs_and_uses =
                                          Append(@, Use(context, location))]
                  ELSE table
    IN  IF lvalue.kind = "Projection"
        THEN FinderVisitLvalue(pushed, s, lvalue.base,
                               ProjectionContext(context), location)
        ELSE pushed

\* visit_statement: the operands of the statement, from operand k on.
RECURSIVE FinderVisitStatement(_, _, _, _, _)
FinderVisitStatement(table, s, statement, k, location) ==
    IF k > Len(statement) THEN table
    ELSE FinderVisitStatement(
             FinderVisitLvalue(table, s, statement[k].lvalue,
                               statement[k].context, location),
             s, statement, k + 1, location)

\* visit_mir: every location, in program order.
RECURSIVE FinderVisitLocations(_, _, _, _)
FinderVisitLocations(table, s, m, locations) ==
    IF locations = << >> THEN table
    ELSE FinderVisitLocations(
             FinderVisitStatement(table, s, StatementAt(m, Head(locations)),
                                  1, Head(locations)),
             s, m, Tail(locations))

FinderVisitMir(table, s, m) ==
    FinderVisitLocations(table, s, m, LocationsFrom(m, 0, 0))

-----------------------------------------------------------------------------
(* MutateUseVisitor: the mutating visitor, with the callback of            *)
(* replace_all_defs_and_uses_with, which assigns a clone of new_lvalue.    *)

\* What a visit yields: the value it returns, or that it never returns.
Returns(v) == [returns |-> TRUE, value |-> v]
Diverges == [returns |-> FALSE]

\* A visitor that overwrites every local it meets at the location, whichever
\* local it is.
RECURSIVE MutateVisitLvalueBlind(_, _, _, _, _)
MutateVisitLvalueBlind(lvalue, query, new_lvalue, s, depth) ==
    IF depth = 0 THEN Diverges
    ELSE LET now == IF local_index(s, lvalue).some /\ lvalue # new_lvalue
                    THEN new_lvalue
                    ELSE lvalue
         IN  IF now.kind = "Projection"
             THEN LET base == MutateVisitLvalueBlind(now.base, query, new_lvalue,
                                                     s, depth - 1)
                  IN  IF base.returns
                      THEN Returns([now EXCEPT !.base = base.value])
                      ELSE Diverges
             ELSE Returns(now)

\* visit_lvalue: the callback overwrites a matching lvalue, then super_lvalue
\* descends into the lvalue as it now is.  `depth` counts the nested calls
\* still allowed; a visit that needs more does not return.
RECURSIVE MutateVisitLvalue(_, _, _, _, _)
MutateVisitLvalue(lvalue, query, new_lvalue, s, depth) ==
    IF depth = 0 THEN Diverges
    ELSE LET now == IF local_index(s, lvalue) = Some(query)
                    THEN new_lvalue
                    ELSE lvalue
         IN  IF now.kind = "Projection"
             THEN LET base == MutateVisitLvalue(now.base, query, new_lvalue,
                                                s, depth - 1)
                  IN  IF base.returns
                      THEN Returns([now EXCEPT !.base = base.value])
                      ELSE Diverges
             ELSE Returns(now)

\* Nested visit_lvalue calls a returning visit of `lvalue` can need: one per
\* level of the lvalue, then one per level of the lvalue written over a match.
VisitDepth(lvalue, new_lvalue) == Nesting(lvalue) + Nesting(new_lvalue) + 2

\* visit_statement: the operands of the statement, from operand k on.
RECURSIVE MutateVisitStatement(_, _, _, _, _)
MutateVisitStatement(statement, k, query, new_lvalue, s) ==
    IF k > Len(statement) THEN Returns(statement)
    ELSE LET lvalue == MutateVisitLvalue(statement[k].lvalue, query, new_lvalue, s,
                           VisitDepth(statement[k].lvalue, new_lvalue))
         IN  IF lvalue.returns
             THEN MutateVisitStatement(
                      [statement EXCEPT ![k].lvalue = lvalue.value],
                      k + 1, query, new_lvalue, s)
             ELSE Diverges

\* visit_location: the statement at the location, in place.
MutateVisitLocation(m, location, query, new_lvalue, s) ==
    LET statement == MutateVisitStatement(StatementAt(m, location), 1,
                                          query, new_lvalue, s)
    IN  IF statement.returns
        THEN Returns([m EXCEPT !.basic_blocks[location.block + 1]
                                   [location.statement_index + 1] = statement.value])
        ELSE Diverges

\* The loop of mutate_defs_and_uses: one visit_location per recorded Use, in
\* table order, each on the program the visits before it left.
RECURSIVE MutateVisitUses(_, _, _, _, _)
MutateVisitUses(uses, m, query, new_lvalue, s) ==
    IF uses = << >> THEN Returns(m)
    ELSE LET visited == MutateVisitLocation(m, Head(uses).location,
                                            query, new_lvalue, s)
         IN  IF visited.returns
             THEN MutateVisitUses(Tail(uses), visited.value, query,
                                  new_lvalue, s)
             ELSE Diverges

-----------------------------------------------------------------------------
(* DefUseAnalysis *)

DefUseAnalysisNew(m) ==
    [info |-> [local \in 0 .. count_locals(m) - 1 |-> InfoNew],
     mir_summary |-> MirSummaryNew(m)]

\* analyze: the finder is handed the table as it is and the table it leaves
\* is stored back.
analyze(table, s, m) == FinderVisitMir(table, s, m)

\* mutate_defs_and_uses with the callback that assigns new_lvalue: the program
\* it leaves.
mutate_defs_and_uses(table, s, local, m, new_lvalue) ==
    MutateVisitUses(table[local].defs_and_uses, m, local, new_lvalue, s)

\* A replace_all that also empties the Info of the local it rewrote.
replace_all_clearing_info(table, s, local, m, new_lvalue) ==
    LET rewritten == mutate_defs_and_uses(table, s, local, m, new_lvalue)
    IN  IF rewritten.returns
        THEN Returns([mir |-> rewritten.value,
                      info |-> [table EXCEPT ![local] = InfoNew]])
        ELSE Diverges

\* replace_all_defs_and_uses_with: the program and the table (borrowed
\* immutably) it leaves.
replace_all_defs_and_uses_with(table, s, local, m, new_lvalue) ==
    LET rewritten == mutate_defs_and_uses(table, s, local, m, new_lvalue)
    IN  IF rewritten.returns
        THEN Returns([mir |-> rewritten.value, info |-> table])
        ELSE Diverges

-----------------------------------------------------------------------------
(* The programs and the arguments the calls are given. *)

Locals(c) ==
    {Arg(i) : i \in 0 .. c.arg_count - 1}
        \cup {Var(i) : i \in 0 .. c.var_count - 1}
        \cup {Temp(i) : i \in 0 .. c.temp_count - 1}
        \cup {ReturnPointer}

SimpleLvalues(c) == Locals(c) \cup {Static(0)}

RECURSIVE Lvalues(_, _, _)
Lvalues(c, nest, elems) ==
    IF nest = 0 THEN SimpleLvalues(c)
    ELSE Lvalues(c, nest - 1, elems)
             \cup {Projection(e, b) : e \in elems,
                                      b \in Lvalues(c, nest - 1, elems)}

Summaries ==
    {[arg_count |-> 1, var_count |-> 1, temp_count |-> 0],
     [arg_count |-> 0, var_count |-> 0, temp_count |-> 1]}

\* dest = src
Assign(dest, src) == << Operand("Store", dest), Operand("Consume", src) >>
\* a binary operation on *src and *src
UseDerefTwice(src) ==
    << Operand("Consume", Projection("Deref", src)),
       Operand("Consume", Projection("Deref", src)) >>
\* a read of src
UseLocal(src) == << Operand("Consume", src) >>
\* drop(lvalue)
Drop(lvalue) == << Operand("Drop", lvalue) >>

MirOf(c, blocks) ==
    [arg_count |-> c.arg_count, var_count |-> c.var_count,
     temp_count |-> c.temp_count, basic_blocks |-> blocks]

\* The projections of the programs.  def_use.rs never looks at the element of
\* a projection; an Index, whose index is an operand of its own to the
\* visitor, is left to SpecIndex.
ProgramElems == {"Deref", "Field"}

\* A block that assigns a local to any lvalue, then a block that reads a
\* local, or reads twice through the local assigned from and drops it.
ProgramsOf(c) ==
    {MirOf(c, << << Assign(dest, src) >>, << UseLocal(u) >> >>) :
        dest \in Lvalues(c, MaxNest, ProgramElems),
        src \in Locals(c), u \in Locals(c)}
    \cup {MirOf(c, << << Assign(dest, src) >>,
                      << UseDerefTwice(src), Drop(src) >> >>) :
        dest \in Lvalues(c, MaxNest, ProgramElems), src \in Locals(c)}

Programs == UNION {ProgramsOf(c) : c \in Summaries}

\* The programs of SpecAccess: an assignment between locals, then a block
\* that reads a local and drops a local.
AccessProgramsOf(c) ==
    {MirOf(c, << << Assign(dest, src) >>, << UseLocal(u), Drop(u) >> >>) :
        dest \in Locals(c), src \in Locals(c), u \in Locals(c)}

AccessPrograms == UNION {AccessProgramsOf(c) : c \in Summaries}

\* The lvalues replace_all_defs_and_uses_with is given.
Replacements(c) ==
    SimpleLvalues(c) \cup {Projection("Deref", b) : b \in Locals(c)}

\* The handles the calls are given: every local, and the first past the end.
Handles(m) == 0 .. count_locals(m)

\* The (local, new_lvalue) arguments of replace_all_defs_and_uses_with.
Requests(m, handles) ==
    [local : handles, new_lvalue : Replacements(MirSummaryNew(m))]

Runs == Len(SelectSeq(trace, LAMBDA op : op = "analyze"))
Rewrites == Len(SelectSeq(trace, LAMBDA op : op = "replace_all"))

\* A call that does not return leaves nothing to run after it.
Diverged == ret.outcome = "diverges"

Snapshot == [mir |-> mir, info |-> info]

-----------------------------------------------------------------------------
(* The state machine. *)

InitOn(m, handles) ==
    /\ mir = m
    /\ request \in Requests(m, handles)
    /\ mir_summary = DefUseAnalysisNew(m).mir_summary
    /\ info = DefUseAnalysisNew(m).info
    /\ trace = << >>
    /\ pre = Snapshot
    /\ ret = [op |-> "new", outcome |-> "ok"]

\* Any program, and a request for one of its locals.
Init == \E m \in Programs : InitOn(m, 0 .. count_locals(m) - 1)

Analyze ==
    /\ ~Diverged
    /\ Runs < MaxRuns
    /\ info' = analyze(info, mir_summary, mir)
    /\ trace' = Append(trace, "analyze")
    /\ pre' = Snapshot
    /\ ret' = [op |-> "analyze", outcome |-> "ok"]
    /\ UNCHANGED <<mir, mir_summary, request>>

\* self.info[local] is indexed before anything is visited.
ReplaceAll ==
    /\ ~Diverged
    /\ Rewrites < MaxRewrites
    /\ pre' = Snapshot
    /\ UNCHANGED <<mir_summary, request>>
    /\ LET result == replace_all_defs_and_uses_with(
                         info, mir_summary, request.local, mir,
                         request.new_lvalue)
       IN  IF request.local \notin DOMAIN info
           THEN /\ ret' = [op |-> "replace_all", outcome |-> "out_of_range"]
                /\ UNCHANGED <<mir, info, trace>>
           ELSE IF ~result.returns
           THEN /\ ret' = [op |-> "replace_all", outcome |-> "diverges"]
                /\ UNCHANGED <<mir, info, trace>>
           ELSE /\ ret' = [op |-> "replace_all", outcome |-> "ok"]
                /\ mir' = result.value.mir
                /\ info' = result.value.info
                /\ trace' = Append(trace, "replace_all")

LocalInfo(local) ==
    /\ ~Diverged
    /\ pre' = Snapshot
    /\ ret' = [op |-> "local_info", local |-> local,
               outcome |-> IF local \in DOMAIN info THEN "ok" ELSE "out_of_range"]
    /\ UNCHANGED <<mir, mir_summary, info, trace, request>>

LocalInfoMut(local) ==
    /\ ~Diverged
    /\ pre' = Snapshot
    /\ ret' = [op |-> "local_info_mut", local |-> local,
               outcome |-> IF local \in DOMAIN info THEN "ok" ELSE "out_of_range"]
    /\ UNCHANGED <<mir, mir_summary, info, trace, request>>

Next ==
    \/ Analyze
    \/ ReplaceAll

Spec == Init /\ [][Next]_vars

\* The accessors beside analyze and replace_all, on programs of locals, with
\* handles in and out of range.
InitAccess == \E m \in AccessPrograms : InitOn(m, Handles(m))

NextAccess ==
    \/ Analyze
    \/ ReplaceAll
    \/ \E local \in Handles(mir) : LocalInfo(local)
    \/ \E local \in Handles(mir) : LocalInfoMut(local)

SpecAccess == InitAccess /\ [][NextAccess]_vars

\* MirSummary::local_index on its own: a summary with up to MaxDecls
\* declarations of each kind, and any descriptor.
IndexSummaries ==
    [arg_count : 0 .. MaxDecls, var_count : 0 .. MaxDecls,
     temp_count : 0 .. MaxDecls]

InitIndex ==
    /\ mir \in {MirOf(c, << >>) : c \in IndexSummaries}
    /\ request = [local |-> 0, new_lvalue |-> ReturnPointer]
    /\ mir_summary = DefUseAnalysisNew(mir).mir_summary
    /\ info = DefUseAnalysisNew(mir).info
    /\ trace = << >>
    /\ pre = Snapshot
    /\ ret = [op |-> "new", outcome |-> "ok"]

LocalIndex(lvalue) ==
    /\ ret' = [op |-> "local_index", lvalue |-> lvalue, outcome |-> "ok",
               result |-> local_index(mir_summary, lvalue)]
    /\ UNCHANGED <<mir, mir_summary, info, request, trace, pre>>

NextIndex ==
    \E lvalue \in Lvalues(mir_summary, 1, ProjectionElems) : LocalIndex(lvalue)

SpecIndex == InitIndex /\ [][NextIndex]_vars

-----------------------------------------------------------------------------
(* What the properties are stated with: the program read as a set of       *)
(* sites, one per lvalue node the visitors reach.                          *)

AllLocations(m) ==
    UNION {{Location(b, i) : i \in 0 .. Len(m.basic_blocks[b + 1]) - 1} :
               b \in 0 .. Len(m.basic_blocks) - 1}

\* The operands of the program: a location and a position in its statement.
AllOperands(m) ==
    UNION {{[location |-> loc, k |-> k] : k \in 1 .. Len(StatementAt(m, loc))} :
               loc \in AllLocations(m)}

OperandAt(m, o) == StatementAt(m, o.location)[o.k]

\* The node `level` projections below the top of an lvalue.
RECURSIVE NodeAt(_, _)
NodeAt(lvalue, level) ==
    IF level = 0 THEN lvalue ELSE NodeAt(lvalue.base, level - 1)

\* The innermost lvalue of a projection chain.
BaseOf(lvalue) == NodeAt(lvalue, Nesting(lvalue))

\* The context a node `level` projections below an operand is visited in.
RECURSIVE ContextAt(_, _)
ContextAt(context, level) ==
    IF level = 0 THEN context
    ELSE ProjectionContext(ContextAt(context, level - 1))

\* The lvalue with its innermost lvalue replaced.
RECURSIVE Rebase(_, _)
Rebase(lvalue, new_lvalue) ==
    IF lvalue.kind = "Projection"
    THEN Projection(lvalue.elem, Rebase(lvalue.base, new_lvalue))
    ELSE new_lvalue

AllSites(m) ==
    UNION {{[location |-> o.location, k |-> o.k, level |-> j] :
                j \in 0 .. Nesting(OperandAt(m, o).lvalue)} :
               o \in AllOperands(m)}

SiteNode(m, site) == NodeAt(OperandAt(m, site).lvalue, site.level)
SiteContext(m, site) == ContextAt(OperandAt(m, site).context, site.level)

\* Program order: blocks, statements, operands, then outermost node first.
Before(a, b) ==
    \/ a.location.block < b.location.block
    \/ /\ a.location.block = b.location.block
       /\ \/ a.location.statement_index < b.location.statement_index
          \/ /\ a.location.statement_index = b.location.statement_index
             /\ \/ a.k < b.k
                \/ a.k = b.k /\ a.level < b.level

\* The sites of the program that resolve to the local.
Hits(m, s, local) ==
    {site \in AllSites(m) : local_index(s, SiteNode(m, site)) = Some(local)}

\* The uses table[local] lists are the hits of the local, each once, in
\* program order.
ListsTheHits(uses, m, s, local) ==
    LET hits == Hits(m, s, local)
    IN  /\ Len(uses) = Cardinality(hits)
        /\ \A site \in hits :
               LET rank == 1 + Cardinality({h \in hits : Before(h, site)})
               IN  uses[rank] = Use(SiteContext(m, site), site.location)

TotalLocals(m) == m.arg_count + m.var_count + m.temp_count + 1

RecordedLocations(table, local) ==
    {table[local].defs_and_uses[i].location :
         i \in DOMAIN table[local].defs_and_uses}

LastCall == IF trace = << >> THEN "new" ELSE trace[Len(trace)]

\* The table was filled by one analyze call, the latest call that returned.
AfterFirstRun == Runs = 1 /\ LastCall = "analyze"

\* The latest call is a replace_all that returned.
AfterReplaceAll == ret.op = "replace_all" /\ ret.outcome = "ok"

\* v0 := a0; return v0
ScenarioProgram ==
    MirOf([arg_count |-> 1, var_count |-> 1, temp_count |-> 0],
          << << Assign(Var(0), Arg(0)) >>, << UseLocal(Var(0)) >> >>)

-----------------------------------------------------------------------------
(* C1: after new and one analyze, the table has one Info per local and     *)
(* Info(l) lists exactly the lvalue nodes of the program that local_index  *)
(* resolves to l, with the context and location each is visited with, each *)
(* once, in program order.                                                 *)

C1_InfoIsTheScan ==
    AfterFirstRun =>
        /\ DOMAIN info = 0 .. TotalLocals(mir) - 1
        /\ \A local \in DOMAIN info :
               ListsTheHits(info[local].defs_and_uses, mir, mir_summary, local)

\* One local met three times, through a projection and at two locations.
C1_Witness ==
    /\ AfterFirstRun
    /\ \E local \in DOMAIN info :
           /\ Len(info[local].defs_and_uses) >= 3
           /\ \E i, j \in DOMAIN info[local].defs_and_uses :
                  /\ i < j
                  /\ info[local].defs_and_uses[i].context = "ProjectionMut"
                  /\ info[local].defs_and_uses[i].location
                         # info[local].defs_and_uses[j].location

-----------------------------------------------------------------------------
(* C2: analyze called twice in a row on an unmodified program leaves every *)
(* Info as the first call left it.                                         *)

C2_RunIsIdempotent ==
    (/\ ret.op = "analyze"
     /\ Len(trace) >= 2
     /\ trace[Len(trace) - 1] = "analyze"
     /\ mir = pre.mir)
        => info = pre.info

-----------------------------------------------------------------------------
(* C3: after analyze and then replace_all(l, P, R), every site at a        *)
(* recorded location that resolved to l holds R, and a further analyze     *)
(* shows no use of l at a location that was recorded for l.                *)

C3_RewriteSoundness ==
    /\ (/\ AfterReplaceAll
        /\ Len(trace) >= 2
        /\ trace[Len(trace) - 1] = "analyze")
           => \A site \in Hits(pre.mir, mir_summary, request.local) :
                  site.location \in RecordedLocations(pre.info, request.local)
                      => SiteNode(mir, site) = request.new_lvalue
    /\ (/\ ret.op = "analyze"
        /\ Len(trace) >= 3
        /\ trace[Len(trace) - 1] = "replace_all"
        /\ trace[Len(trace) - 2] = "analyze")
           => \A i \in DOMAIN info[request.local].defs_and_uses :
                  info[request.local].defs_and_uses[i].location
                      \notin RecordedLocations(pre.info, request.local)

-----------------------------------------------------------------------------
(* C4: replace_all(l, P, R) changes nothing but the lvalues that resolve   *)
(* to l: the shape of the program, every context, every statement at a     *)
(* location not recorded for l, every operand whose innermost lvalue does  *)
(* not resolve to l, and the projections around one that does, are as      *)
(* before.                                                                 *)

C4_RewriteFrame ==
    AfterReplaceAll =>
        /\ MirSummaryNew(mir) = MirSummaryNew(pre.mir)
        /\ AllOperands(mir) = AllOperands(pre.mir)
        /\ \A loc \in AllLocations(pre.mir) :
               loc \notin RecordedLocations(pre.info, request.local)
                   => StatementAt(mir, loc) = StatementAt(pre.mir, loc)
        /\ \A o \in AllOperands(pre.mir) :
               LET old == OperandAt(pre.mir, o)
                   new == OperandAt(mir, o)
               IN  /\ new.context = old.context
                   /\ local_index(mir_summary, BaseOf(old.lvalue))
                          # Some(request.local)
                        => new = old
                   /\ Nesting(new.lvalue) >= Nesting(old.lvalue)
                   /\ \A j \in 0 .. Nesting(old.lvalue) - 1 :
                          /\ NodeAt(new.lvalue, j).kind = "Projection"
                          /\ NodeAt(new.lvalue, j).elem
                                 = NodeAt(old.lvalue, j).elem

\* x := y with l = x: the destination is rewritten, the source beside it is not.
C4_Witness ==
    /\ AfterReplaceAll
    /\ \E loc \in AllLocations(pre.mir) :
           \E k1, k2 \in 1 .. Len(StatementAt(pre.mir, loc)) :
               /\ StatementAt(mir, loc)[k1] # StatementAt(pre.mir, loc)[k1]
               /\ StatementAt(mir, loc)[k2] = StatementAt(pre.mir, loc)[k2]
               /\ local_index(mir_summary, StatementAt(pre.mir, loc)[k2].lvalue).some

-----------------------------------------------------------------------------
(* C5: in every table state def_count is the number of uses of the Info    *)
(* that are mutating, def_count_not_including_drop the number that are     *)
(* mutating and not drops, use_count the number that are non-mutating; a   *)
(* local met nowhere counts 0, 0, 0 after analyze; and v0 := a0; return v0 *)
(* gives def_count(v0) = 1, use_count(v0) = 1, use_count(a0) = 1,          *)
(* def_count(a0) = 0.                                                      *)

C5_CountsAreFilters ==
    /\ \A local \in DOMAIN info :
           LET uses == info[local].defs_and_uses
           IN  /\ def_count(info[local]) =
                      Cardinality({i \in DOMAIN uses :
                                       is_mutating_use(uses[i].context)})
               /\ def_count_not_including_drop(info[local]) =
                      Cardinality({i \in DOMAIN uses :
                                       /\ is_mutating_use(uses[i].context)
                                       /\ ~is_drop(uses[i].context)})
               /\ use_count(info[local]) =
                      Cardinality({i \in DOMAIN uses :
                                       is_nonmutating_use(uses[i].context)})
    /\ AfterFirstRun =>
           \A local \in DOMAIN info :
               Hits(mir, mir_summary, local) = {}
                   => /\ def_count(info[local]) = 0
                      /\ def_count_not_including_drop(info[local]) = 0
                      /\ use_count(info[local]) = 0
    /\ (AfterFirstRun /\ mir = ScenarioProgram) =>
           /\ def_count(info[1]) = 1
           /\ use_count(info[1]) = 1
           /\ use_count(info[0]) = 1
           /\ def_count(info[0]) = 0

\* The scenario analyzed, its return pointer met nowhere.
C5_Witness ==
    /\ AfterFirstRun
    /\ mir = ScenarioProgram
    /\ def_count(info[1]) = 1
    /\ use_count(info[0]) = 1
    /\ Hits(mir, mir_summary, 2) = {}

-----------------------------------------------------------------------------
(* C6: with A arguments, V variables and T temporaries local_index maps    *)
(* argument k to k, variable k to A+k, temporary k to A+V+k and the return *)
(* pointer to A+V+T: A+V+T+1 distinct indices, all below A+V+T+1; every    *)
(* other lvalue resolves to no local.                                      *)

C6_IndexMapping ==
    LET s == mir_summary
        A == s.arg_count
        V == s.var_count
        T == s.temp_count
    IN  /\ \A k \in 0 .. A - 1 : local_index(s, Arg(k)) = Some(k)
        /\ \A k \in 0 .. V - 1 : local_index(s, Var(k)) = Some(A + k)
        /\ \A k \in 0 .. T - 1 : local_index(s, Temp(k)) = Some(A + V + k)
        /\ local_index(s, ReturnPointer) = Some(A + V + T)
        /\ Cardinality(Locals(s)) = A + V + T + 1
        /\ Cardinality({local_index(s, lvalue) : lvalue \in Locals(s)})
               = A + V + T + 1
        /\ \A lvalue \in Locals(s) :
               /\ local_index(s, lvalue).some
               /\ local_index(s, lvalue).value \in 0 .. A + V + T
        /\ (ret.op = "local_index"
                /\ ret.lvalue.kind \in {"Static", "Projection"})
               => ret.result = None

\* The second temporary of a program with arguments and variables.
C6_Witness ==
    /\ ret.op = "local_index"
    /\ ret.lvalue = Temp(1)
    /\ mir_summary.arg_count = 2
    /\ mir_summary.var_count = 1
    /\ ret.result = Some(4)

-----------------------------------------------------------------------------
(* C7: every call returns; replace_all(l, P, R) returns for every          *)
(* replacement lvalue R, simple or a projection, whatever its base.        *)

C7_EveryCallReturns == ret.outcome # "diverges"

-----------------------------------------------------------------------------
(* C8: replace_all leaves the table as it was: every Info, and so every    *)
(* count, is what it was before the call, even where the program no longer *)
(* matches it.                                                             *)

C8_TableUntouched ==
    AfterReplaceAll =>
        /\ info = pre.info
        /\ \A local \in DOMAIN pre.info :
               /\ def_count(info[local]) = def_count(pre.info[local])
               /\ def_count_not_including_drop(info[local])
                      = def_count_not_including_drop(pre.info[local])
               /\ use_count(info[local]) = use_count(pre.info[local])

\* The program changed under a table that was accurate: the table is stale.
C8_Witness ==
    /\ AfterReplaceAll
    /\ Runs = 1
    /\ mir # pre.mir
    /\ def_count(info[request.local]) > 0
    /\ Hits(mir, mir_summary, request.local) = {}

-----------------------------------------------------------------------------
(* C9: a handle at or past A+V+T+1 makes local_info, local_info_mut and    *)
(* replace_all end in an out-of-range fault and leaves program and table   *)
(* as they were; with a handle below it every call returns normally, as    *)
(* do new and analyze.                                                     *)

C9_OutOfRangeFaults ==
    /\ ret.op \in {"local_info", "local_info_mut"} =>
           /\ ret.local >= TotalLocals(mir) => ret.outcome = "out_of_range"
           /\ ret.local < TotalLocals(mir) => ret.outcome = "ok"
    /\ ret.op = "replace_all" =>
           /\ request.local >= TotalLocals(mir) => ret.outcome = "out_of_range"
           /\ request.local < TotalLocals(mir) => ret.outcome = "ok"
    /\ ret.op \in {"new", "analyze"} => ret.outcome = "ok"
    /\ ret.outcome = "out_of_range" => mir = pre.mir /\ info = pre.info

-----------------------------------------------------------------------------
(* C10: a projection never resolves to a local; analyze records each       *)
(* operand that is a projection once, for the local at its base, and for   *)
(* no other local; replace_all(b, P, R) on such an operand overwrites the  *)
(* base and keeps the projections around it.                               *)

====
